---- MODULE Spec2Model ----
(***************************************************************************)
(* Model of litellm/caching/caching.py: the Cache orchestrator (key        *)
(* derivation, cache policy, freshness evaluation, read / write / batch    *)
(* write paths) over a pluggable backend.                                  *)
(*                                                                         *)
(* Python values are tagged records [t |-> <type>, v |-> <payload>], so    *)
(* that None, text, numbers, lists, tuples, mappings and pydantic models   *)
(* stay distinguishable.  Text payloads are TLA+ strings; str() and the    *)
(* f-string concatenation of get_cache_key are computed character for      *)
(* character.                                                              *)
(***************************************************************************)
EXTENDS Integers, Sequences, FiniteSets, TLC

VARIABLES
    self,       \* the Cache object: type, mode, namespace, ttl, redis_flush_size
    flag,       \* litellm.enable_caching_on_provider_specific_optional_params
    backend,    \* behaviour of the bound backend self.cache
    store,      \* contents of the bound backend: key -> stored value
    buffer,     \* the backend's buffer of writes waiting for a flush
    now,        \* time.time()
    last,       \* the last orchestrator call and what it did
    A1, A2,     \* two call-argument mappings handed to get_cache_key
    key1, key2, \* what get_cache_key gave for A1 and A2
    cache,      \* litellm.cache, the process-wide Cache
    input_callback,          \* litellm.input_callback
    success_callback,        \* litellm.success_callback
    _async_success_callback, \* litellm._async_success_callback
    running     \* the calls in progress: caller -> how far its call has come

\* the process-wide state of the litellm module
process == <<cache, input_callback, success_callback, _async_success_callback>>

\* the Cache object in use, its backend and the clock
orchestrator == <<self, flag, backend, store, buffer, now>>

\* the state of the key derivation on its own
derivation == <<A1, A2, key1, key2>>

vars == <<self, flag, backend, store, buffer, now, last, A1, A2, key1, key2,
          cache, input_callback, success_callback, _async_success_callback,
          running>>

-----------------------------------------------------------------------------
(* Python values *)

None == [t |-> "None", v |-> 0]
S(s) == [t |-> "str", v |-> s]
N(n) == [t |-> "num", v |-> n]
B(b) == [t |-> "bool", v |-> b]
L(q) == [t |-> "list", v |-> q]
T(q) == [t |-> "tuple", v |-> q]
D(f) == [t |-> "dict", v |-> f]
M(f) == [t |-> "BaseModel", v |-> f]
F(n) == [t |-> "file", v |-> n]
E(q) == [t |-> "EmbeddingResponse", v |-> q]

\* a parameter the mapping does not carry; a call that has not been made
Absent == [t |-> "absent", v |-> ""]
Pending == [exc |-> FALSE, val |-> [t |-> "pending", v |-> ""]]

EmptyMap == [x \in {} |-> None]
EmptyDict == D(EmptyMap)

IsDict(x) == x.t = "dict"

\* d.get(k, default) on a mapping
DictGet(d, k, default) == IF k \in DOMAIN d.v THEN d.v[k] ELSE default

\* bool(x)
Truthy(x) ==
    CASE x.t = "None" -> FALSE
      [] x.t = "str" -> x.v # ""
      [] x.t = "num" -> x.v # 0
      [] x.t = "bool" -> x.v
      [] x.t \in {"list", "tuple"} -> Len(x.v) > 0
      [] x.t = "dict" -> DOMAIN x.v # {}
      [] OTHER -> TRUE

\* x or y
Or(x, y) == IF Truthy(x) THEN x ELSE y

\* x in group, for a list or tuple
In(x, group) == \E i \in 1..Len(group.v) : group.v[i] = x

\* repr() of an element of a list or tuple
Repr(x) ==
    CASE x.t = "str" -> "'" \o x.v \o "'"
      [] x.t = "num" -> ToString(x.v)
      [] x.t = "bool" -> IF x.v THEN "True" ELSE "False"
      [] OTHER -> "None"

RECURSIVE Join(_, _)
Join(q, i) ==
    IF i > Len(q) THEN ""
    ELSE Repr(q[i]) \o (IF i < Len(q) THEN ", " ELSE "") \o Join(q, i + 1)

\* str(x)
Str(x) ==
    CASE x.t = "str" -> x.v
      [] x.t = "None" -> "None"
      [] x.t = "num" -> ToString(x.v)
      [] x.t = "bool" -> IF x.v THEN "True" ELSE "False"
      [] x.t = "list" -> "[" \o Join(x.v, 1) \o "]"
      [] x.t = "tuple" ->
            "(" \o Join(x.v, 1) \o (IF Len(x.v) = 1 THEN "," ELSE "") \o ")"
      [] x.t = "file" -> "<file " \o x.v \o ">"
      [] OTHER -> "<object>"

-----------------------------------------------------------------------------
(* kwargs: a Python dict, kept as the sequence of its (name, value) items  *)
(* in insertion order.                                                     *)

Names(kw) == {kw[i][1] : i \in 1..Len(kw)}
Has(kw, n) == n \in Names(kw)
Index(kw, n) == CHOOSE i \in 1..Len(kw) : kw[i][1] = n

\* kwargs[n]
At(kw, n) == kw[Index(kw, n)][2]

\* kwargs.get(n, default)
Get(kw, n, default) == IF Has(kw, n) THEN At(kw, n) ELSE default

\* kwargs[n] = v, and {**kwargs, n: v}
Put(kw, n, v) ==
    IF Has(kw, n) THEN [kw EXCEPT ![Index(kw, n)] = <<n, v>>]
    ELSE Append(kw, <<n, v>>)

\* what a call gives back: a value, or a raised exception
Return(x) == [exc |-> FALSE, val |-> x]
Raise == [exc |-> TRUE, val |-> None]

-----------------------------------------------------------------------------
(* Cache.get_cache_key *)

completion_kwargs ==
    <<"model", "messages", "prompt", "temperature", "top_p", "n", "stop",
      "max_tokens", "presence_penalty", "frequency_penalty", "logit_bias",
      "user", "response_format", "seed", "tools", "tool_choice", "stream">>
embedding_only_kwargs == <<"input", "encoding_format">>
transcription_only_kwargs == <<"file", "language">>
rerank_only_kwargs ==
    <<"top_n", "rank_fields", "return_documents", "max_chunks_per_doc",
      "documents", "query">>
combined_kwargs ==
    completion_kwargs \o embedding_only_kwargs \o transcription_only_kwargs
        \o rerank_only_kwargs

InSeq(x, q) == \E i \in 1..Len(q) : q[i] = x

\* litellm.types.utils.all_litellm_params: the call parameters that never
\* enter a key (those of them that the modelled calls carry)
all_litellm_params ==
    {"metadata", "litellm_params", "cache", "cache_key", "ttl",
     "preset_cache_key", "caching_groups", "model_info"}

\* hashlib.sha256(cache_key.encode()).hexdigest(): a digest is a fixed
\* function of its preimage and two preimages never share one; it is kept
\* as the preimage inside a digest marker no namespace begins with
Sha256(cache_key) == "sha256<" \o cache_key \o ">"

\* for group in caching_groups: if model_group in group: caching_group = group; break
RECURSIVE FirstGroup(_, _, _, _)
\* FirstGroup that takes the first group declared, whatever it contains
FirstGroupAny(caching_groups, model_group, i, caching_group) ==
    IF i > Len(caching_groups.v) THEN caching_group ELSE caching_groups.v[i]

FirstGroup(caching_groups, model_group, i, caching_group) ==
    IF i > Len(caching_groups.v) THEN caching_group
    ELSE IF In(model_group, caching_groups.v[i]) THEN caching_groups.v[i]
    ELSE FirstGroup(caching_groups, model_group, i + 1, caching_group)

\* one pass of "if metadata is not None: ..." over a metadata mapping:
\* the (model_group, caching_group) it leaves
GroupsOf(metadata, groups) ==
    IF metadata = None THEN groups
    ELSE LET model_group == DictGet(metadata, "model_group", None)
             caching_groups == DictGet(metadata, "caching_groups", None)
         IN  [model_group |-> model_group,
              caching_group |->
                  IF Truthy(caching_groups)
                  THEN FirstGroup(caching_groups, model_group, 1,
                                  groups.caching_group)
                  ELSE groups.caching_group]

\* caching_group or model_group or kwargs["model"]
Chosen(kwargs, groups) ==
    Return(Or(groups.caching_group, Or(groups.model_group, At(kwargs, "model"))))

\* if litellm_params is not None: the pass over litellm_params["metadata"]
Groups2(litellm_params, groups) ==
    IF litellm_params = None THEN groups
    ELSE GroupsOf(DictGet(litellm_params, "metadata", None), groups)

\* ModelValue without the group substitution: the literal model name
ModelValueLiteral(kwargs) == Return(At(kwargs, "model"))

\* the value of the model parameter in the key
ModelValue(kwargs) ==
    Chosen(kwargs,
           Groups2(Get(kwargs, "litellm_params", EmptyDict),
                   GroupsOf(Get(kwargs, "metadata", None),
                            [model_group |-> None, caching_group |-> None])))

\* getattr(file, "name", None)
FileName(file) == IF file.t = "file" THEN S(file.v) ELSE None

\* metadata.get("file_checksum") or getattr(file, "name", None)
\*     or metadata.get("file_name") or litellm_params.get("file_name")
FileChain(metadata, name, litellm_params) ==
    IF ~IsDict(metadata) THEN Raise
    ELSE IF Truthy(DictGet(metadata, "file_checksum", None))
         THEN Return(DictGet(metadata, "file_checksum", None))
    ELSE IF Truthy(name) THEN Return(name)
    ELSE IF Truthy(DictGet(metadata, "file_name", None))
         THEN Return(DictGet(metadata, "file_name", None))
    ELSE IF ~IsDict(litellm_params) THEN Raise
    ELSE Return(DictGet(litellm_params, "file_name", None))

\* the value of the file parameter in the key
FileValue(kwargs) ==
    FileChain(Get(kwargs, "metadata", EmptyDict),
              FileName(Get(kwargs, "file", None)),
              Get(kwargs, "litellm_params", EmptyDict))

\* f"{str(param)}: {str(param_value)}"
Item(param, param_value) == param \o ": " \o Str(param_value)

\* the item of a parameter whose value was computed, unless that raised
ItemOf(param, value) == IF value.exc THEN Raise ELSE Return(Item(param, value.val))

\* ParamPart without the two tests for None
ParamPartKeepNone(kwargs, param, provider_flag) ==
    IF InSeq(param, combined_kwargs)
    THEN IF param = "model" THEN ItemOf(param, ModelValue(kwargs))
         ELSE IF param = "file" THEN ItemOf(param, FileValue(kwargs))
         ELSE Return(Item(param, At(kwargs, param)))
    ELSE IF param \notin all_litellm_params /\ provider_flag
         THEN Return(Item(param, At(kwargs, param)))
    ELSE Return("")

\* what one parameter of kwargs adds to cache_key ("" when it is skipped)
ParamPart(kwargs, param, provider_flag) ==
    IF InSeq(param, combined_kwargs)
    THEN IF param = "model" THEN ItemOf(param, ModelValue(kwargs))
         ELSE IF param = "file" THEN ItemOf(param, FileValue(kwargs))
         ELSE IF At(kwargs, param) = None THEN Return("")
         ELSE Return(Item(param, At(kwargs, param)))
    ELSE IF param \notin all_litellm_params /\ provider_flag
              /\ At(kwargs, param) # None
         THEN Return(Item(param, At(kwargs, param)))
    ELSE Return("")

\* for param in kwargs: ... cache_key += ...
RECURSIVE KeyLoop(_, _, _, _)
KeyStep(kwargs, i, cache_key, provider_flag, part) ==
    IF part.exc THEN Raise
    ELSE KeyLoop(kwargs, i + 1, cache_key \o part.val, provider_flag)

KeyLoop(kwargs, i, cache_key, provider_flag) ==
    IF i > Len(kwargs) THEN Return(cache_key)
    ELSE KeyStep(kwargs, i, cache_key, provider_flag,
                 ParamPart(kwargs, kwargs[i][1], provider_flag))

\* f"{_namespace}:{hash_hex}"
Prefixed(_namespace, hash_hex) == Return(S(Str(_namespace) \o ":" \o hash_hex))

\* Namespaced with the two branches in the other order: the configuration
\* namespace first, the per-call override only without one
NamespacedConfigFirst(namespace, metadata, hash_hex) ==
    IF ~IsDict(metadata) THEN Raise
    ELSE IF namespace # None THEN Prefixed(namespace, hash_hex)
    ELSE IF DictGet(metadata, "redis_namespace", None) # None
    THEN Prefixed(DictGet(metadata, "redis_namespace", None), hash_hex)
    ELSE Return(S(hash_hex))

\* Namespaced without the elif branch: the configuration namespace is dropped
NamespacedOverrideOnly(namespace, metadata, hash_hex) ==
    IF ~IsDict(metadata) THEN Raise
    ELSE IF DictGet(metadata, "redis_namespace", None) # None
    THEN Prefixed(DictGet(metadata, "redis_namespace", None), hash_hex)
    ELSE Return(S(hash_hex))

\* the namespace prefix put before the digest; metadata is
\* kwargs.get("metadata", {})
Namespaced(namespace, metadata, hash_hex) ==
    IF ~IsDict(metadata) THEN Raise
    ELSE IF DictGet(metadata, "redis_namespace", None) # None
    THEN Prefixed(DictGet(metadata, "redis_namespace", None), hash_hex)
    ELSE IF namespace # None THEN Prefixed(namespace, hash_hex)
    ELSE Return(S(hash_hex))

\* the digest of the concatenation, namespaced
Hashed(namespace, kwargs, loop) ==
    IF loop.exc THEN Raise
    ELSE Namespaced(namespace, Get(kwargs, "metadata", EmptyDict),
                    Sha256(loop.val))

\* PresetKey that never sees a preset key: derivation always runs
PresetKeyIgnored(litellm_params) == None

\* litellm_params.get("preset_cache_key", None)
PresetKey(litellm_params) == DictGet(litellm_params, "preset_cache_key", None)

\* the short cut on a preset key, the derivation without one; litellm_params
\* is kwargs.get("litellm_params", {})
Derive(namespace, provider_flag, kwargs, litellm_params) ==
    IF ~IsDict(litellm_params) THEN Raise
    ELSE IF PresetKey(litellm_params) # None
    THEN Return(PresetKey(litellm_params))
    ELSE Hashed(namespace, kwargs, KeyLoop(kwargs, 1, "", provider_flag))

get_cache_key(namespace, provider_flag, kwargs) ==
    Derive(namespace, provider_flag, kwargs,
           Get(kwargs, "litellm_params", EmptyDict))

-----------------------------------------------------------------------------
(* Cache.should_use_cache, Cache._get_cache_logic, Cache._add_cache_logic *)

\* should_use_cache that answers True whatever the mode
should_use_cache_always(mode, kwargs) == TRUE

should_use_cache(mode, kwargs) ==
    IF mode = "default_on" THEN TRUE
    ELSE LET _cache == Get(kwargs, "cache", None)
         IN  /\ Truthy(_cache)
             /\ IsDict(_cache)
             /\ DictGet(_cache, "use-cache", B(FALSE)) = B(TRUE)

\* float("inf")
Inf == [t |-> "inf", v |-> 0]

\* MaxAge with the two names looked up in the other order
MaxAgeOtherOrder(kwargs) ==
    LET cache_control_args == Get(kwargs, "cache", EmptyDict)
    IN  IF ~IsDict(cache_control_args) THEN Raise
        ELSE Return(DictGet(cache_control_args, "s-maxage",
                        DictGet(cache_control_args, "s-max-age", Inf)))

\* cache_control_args.get("s-max-age", cache_control_args.get("s-maxage", inf))
MaxAge(kwargs) ==
    LET cache_control_args == Get(kwargs, "cache", EmptyDict)
    IN  IF ~IsDict(cache_control_args) THEN Raise
        ELSE Return(DictGet(cache_control_args, "s-max-age",
                        DictGet(cache_control_args, "s-maxage", Inf)))

\* the same comparison with >= in place of >
OlderOrEqual(response_age, max_age) ==
    IF max_age.t = "inf" THEN FALSE ELSE response_age >= max_age.v

\* response_age > max_age
Older(response_age, max_age) ==
    IF max_age.t = "inf" THEN FALSE ELSE response_age > max_age.v

\* the text forms of a value: json.dumps / model_dump_json, and repr
JsonValue(x) ==
    CASE x.t = "str" -> "\"" \o x.v \o "\""
      [] x.t = "num" -> ToString(x.v)
      [] x.t = "bool" -> IF x.v THEN "true" ELSE "false"
      [] OTHER -> "null"

RECURSIVE JsonFields(_, _)
JsonFields(f, keys) ==
    IF keys = {} THEN ""
    ELSE LET k == CHOOSE x \in keys : TRUE
         IN  "\"" \o k \o "\":" \o JsonValue(f[k])
                \o (IF keys = {k} THEN "" ELSE ",")
                \o JsonFields(f, keys \ {k})

JsonText(x) ==
    IF x.t \in {"dict", "BaseModel"}
    THEN "{" \o JsonFields(x.v, DOMAIN x.v) \o "}"
    ELSE JsonValue(x)

RECURSIVE PyFields(_, _)
PyFields(f, keys) ==
    IF keys = {} THEN ""
    ELSE LET k == CHOOSE x \in keys : TRUE
         IN  "'" \o k \o "': " \o Repr(f[k])
                \o (IF keys = {k} THEN "" ELSE ", ")
                \o PyFields(f, keys \ {k})

PyText(x) ==
    IF x.t = "dict" THEN "{" \o PyFields(x.v, DOMAIN x.v) \o "}" ELSE Repr(x)

\* result.model_dump_json()
model_dump_json(result) == S(JsonText(result))

\* the records a stored text can stand for
Record1 == D([id |-> S("r1")])
Record2 == D([id |-> S("r2")])
Documents == {Record1, Record2, None}

\* json.loads(text) and ast.literal_eval(text): the document whose text
\* form the text is, an exception when it is the text form of none
json_loads(x) ==
    IF x.t = "str" /\ \E d \in Documents : JsonText(d) = x.v
    THEN Return(CHOOSE d \in Documents : JsonText(d) = x.v)
    ELSE Raise

literal_eval(x) ==
    IF x.t = "str" /\ \E d \in Documents : PyText(d) = x.v
    THEN Return(CHOOSE d \in Documents : PyText(d) = x.v)
    ELSE Raise

\* Fallback without the literal parse
FallbackNone(cached_response, parsed) == parsed

\* except Exception: cached_response = ast.literal_eval(cached_response)
Fallback(cached_response, parsed) ==
    IF parsed.exc THEN literal_eval(cached_response) ELSE parsed

\* Decode that parses whatever is stored, a structured record included
DecodeParseOnly(cached_response) ==
    Fallback(cached_response, json_loads(cached_response))

\* the try / except around json.loads in _get_cache_logic
Decode(cached_response) ==
    IF IsDict(cached_response) THEN Return(cached_response)
    ELSE Fallback(cached_response, json_loads(cached_response))

_get_cache_logic(cached_result, max_age, current_time) ==
    IF cached_result # None /\ IsDict(cached_result)
          /\ "timestamp" \in DOMAIN cached_result.v
    THEN IF max_age # None
              /\ Older(current_time - cached_result.v["timestamp"].v, max_age)
         THEN Return(None)
         ELSE Decode(DictGet(cached_result, "response", None))
    ELSE Return(cached_result)

\* the key a read or write uses: kwargs["cache_key"] when given
CallKey(namespace, provider_flag, kwargs) ==
    IF Has(kwargs, "cache_key") THEN Return(At(kwargs, "cache_key"))
    ELSE get_cache_key(namespace, provider_flag, kwargs)

\* Entry that stamps every entry with time 0
EntryUntimed(current_time, result) ==
    D([timestamp |-> N(0), response |-> result])

\* the entry a write stores
Entry(current_time, result) ==
    D([timestamp |-> N(current_time), response |-> result])

\* the kwargs _add_cache_logic hands on: the default ttl, then the per-call ttl
DefaultTtl(ttl, kwargs) == IF ttl # None THEN Put(kwargs, "ttl", ttl) ELSE kwargs

\* CallTtl that leaves the per-call ttl out
CallTtlIgnored(_cache_kwargs, kwargs) == kwargs

CallTtl(_cache_kwargs, kwargs) ==
    IF IsDict(_cache_kwargs) /\ "ttl" \in DOMAIN _cache_kwargs.v
    THEN Put(kwargs, "ttl", _cache_kwargs.v["ttl"])
    ELSE kwargs

WithTtl(ttl, kwargs) == CallTtl(Get(kwargs, "cache", None), DefaultTtl(ttl, kwargs))

Raised3 == [exc |-> TRUE, cache_key |-> None, cached_data |-> None, kwargs |-> <<>>]

\* what _add_cache_logic returns for the key it found
Logic(cache_key, ttl, current_time, result, kwargs) ==
    IF cache_key.exc \/ cache_key.val = None THEN Raised3
    ELSE [exc |-> FALSE,
          cache_key |-> cache_key.val,
          cached_data |->
              Entry(current_time,
                    IF result.t = "BaseModel" THEN model_dump_json(result)
                    ELSE result),
          kwargs |-> WithTtl(ttl, kwargs)]

_add_cache_logic(cfg, provider_flag, current_time, result, kwargs) ==
    Logic(CallKey(cfg.namespace, provider_flag, kwargs), cfg.ttl, current_time,
          result, kwargs)

-----------------------------------------------------------------------------
(* The bound backend self.cache: a key-value store that keeps entries as   *)
(* written and applies no expiry; with be.fails every operation raises.    *)
(* A stored item also remembers the call that wrote it (given: the call's  *)
(* kwargs, the index of the input element, the response object), which no  *)
(* operation reads.                                                        *)

By(kwargs, idx, result) == [kwargs |-> kwargs, idx |-> idx, result |-> result]

BackendGet(be, st, key) ==
    IF be.fails THEN Raise
    ELSE Return(IF key.v \in DOMAIN st THEN st[key.v].value ELSE None)

\* the store after the pairs of cache_list are written in order
RECURSIVE StoreAll(_, _, _, _)
StoreAll(st, cache_list, given, i) ==
    IF i > Len(cache_list) THEN st
    ELSE StoreAll((cache_list[i][1].v :> [value |-> cache_list[i][2],
                                          given |-> given[i]]) @@ st,
                  cache_list, given, i + 1)

\* RedisCache.batch_cache_write: append to the buffer, flush it when full
BufferAfter(buf, w, flush_size) ==
    LET appended == buf \o [i \in DOMAIN w.cache_list |->
                                [pair |-> w.cache_list[i], given |-> w.given[i]]]
    IN  IF Len(appended) >= flush_size.v THEN <<>> ELSE appended

Flushed(st, buf, w, flush_size) ==
    LET appended == buf \o [i \in DOMAIN w.cache_list |->
                                [pair |-> w.cache_list[i], given |-> w.given[i]]]
    IN  IF Len(appended) >= flush_size.v
        THEN StoreAll(st, [i \in DOMAIN appended |-> appended[i].pair],
                      [i \in DOMAIN appended |-> appended[i].given], 1)
        ELSE st

\* the store and the buffer after the backend has served the writes in order
RECURSIVE StoreAfter(_, _, _, _, _)
StoreAfter(st, buf, writes, i, flush_size) ==
    IF i > Len(writes) THEN st
    ELSE IF writes[i].op = "batch_cache_write"
    THEN StoreAfter(Flushed(st, buf, writes[i], flush_size),
                    BufferAfter(buf, writes[i], flush_size), writes, i + 1,
                    flush_size)
    ELSE StoreAfter(StoreAll(st, writes[i].cache_list, writes[i].given, 1),
                    buf, writes, i + 1, flush_size)

RECURSIVE BufferAfterAll(_, _, _, _)
BufferAfterAll(buf, writes, i, flush_size) ==
    IF i > Len(writes) THEN buf
    ELSE IF writes[i].op = "batch_cache_write"
    THEN BufferAfterAll(BufferAfter(buf, writes[i], flush_size), writes, i + 1,
                        flush_size)
    ELSE BufferAfterAll(buf, writes, i + 1, flush_size)

\* one call of the backend's write operation op
Write(op, cache_list, given, kwargs) ==
    [op |-> op, cache_list |-> cache_list, given |-> given,
     ttl |-> Get(kwargs, "ttl", Absent)]

-----------------------------------------------------------------------------
(* Cache.get_cache, async_get_cache, add_cache, async_add_cache,           *)
(* async_add_cache_pipeline: what the body of each does, then its          *)
(* try / except.                                                           *)

Read(exc, val, reads) == [exc |-> exc, val |-> val, reads |-> reads]
Wrote(exc, writes) == [exc |-> exc, val |-> None, writes |-> writes]

\* a handler without its try / except
Propagate(out) == out

\* except Exception: the exception is logged and None is returned
Swallow(out) == [out EXCEPT !.exc = FALSE, !.val = IF out.exc THEN None ELSE out.val]

\* return self._get_cache_logic(cached_result=cached_result, max_age=max_age)
Evaluated(r) == Read(r.exc, r.val, 1)

Fetched(cached_result, max_age, current_time) ==
    IF cached_result.exc THEN Read(TRUE, None, 1)
    ELSE Evaluated(_get_cache_logic(cached_result.val, max_age, current_time))

\* if cache_key is not None: ... the backend read and the freshness check
Looked(be, st, current_time, cache_key, max_age) ==
    IF cache_key.exc THEN Read(TRUE, None, 0)
    ELSE IF cache_key.val = None THEN Read(FALSE, None, 0)
    ELSE IF max_age.exc THEN Read(TRUE, None, 0)
    ELSE Fetched(BackendGet(be, st, cache_key.val), max_age.val, current_time)

ReadBody(cfg, provider_flag, be, st, current_time, kwargs) ==
    IF ~should_use_cache(cfg.mode, kwargs) THEN Read(FALSE, None, 0)
    ELSE Looked(be, st, current_time,
                CallKey(cfg.namespace, provider_flag, kwargs), MaxAge(kwargs))

get_cache(cfg, provider_flag, be, st, current_time, kwargs) ==
    Swallow(ReadBody(cfg, provider_flag, be, st, current_time, kwargs))

async_get_cache(cfg, provider_flag, be, st, current_time, kwargs) ==
    Swallow(ReadBody(cfg, provider_flag, be, st, current_time, kwargs))

\* self.cache.<op>(cache_key, cached_data, **kwargs) with what
\* _add_cache_logic returned
Single(op, be, l, given) ==
    IF l.exc THEN Wrote(TRUE, <<>>)
    ELSE Wrote(be.fails,
               <<Write(op, <<<<l.cache_key, l.cached_data>>>>, <<given>>, l.kwargs)>>)

add_cache(cfg, provider_flag, be, current_time, result, kwargs) ==
    Swallow(
        IF ~should_use_cache(cfg.mode, kwargs) THEN Wrote(FALSE, <<>>)
        ELSE Single("set_cache", be,
                    _add_cache_logic(cfg, provider_flag, current_time, result,
                                     kwargs),
                    By(kwargs, 0, result)))

\* async_add_cache that never goes through batch_cache_write
async_add_cache_direct(cfg, provider_flag, be, current_time, result, kwargs) ==
    Swallow(
        IF ~should_use_cache(cfg.mode, kwargs) THEN Wrote(FALSE, <<>>)
        ELSE Single("async_set_cache", be,
                    _add_cache_logic(cfg, provider_flag, current_time, result,
                                     kwargs),
                    By(kwargs, 0, result)))

async_add_cache(cfg, provider_flag, be, current_time, result, kwargs) ==
    Swallow(
        IF ~should_use_cache(cfg.mode, kwargs) THEN Wrote(FALSE, <<>>)
        ELSE Single(IF cfg.type = "redis" /\ cfg.redis_flush_size # None
                    THEN "batch_cache_write" ELSE "async_set_cache",
                    be,
                    _add_cache_logic(cfg, provider_flag, current_time, result,
                                     kwargs),
                    By(kwargs, 0, result)))

\* iterating kwargs["input"]: the items of a list, the characters of a text
Elements(x) ==
    IF x.t \in {"list", "tuple"} THEN x.v
    ELSE [i \in 1..Len(x.v) |-> S(SubSeq(x.v, i, i))]

Iterable(x) == x.t \in {"list", "tuple", "str"}

Built(exc, cache_list, given, kwargs) ==
    [exc |-> exc, cache_list |-> cache_list, given |-> given, kwargs |-> kwargs]

\* for idx, i in enumerate(kwargs["input"]): ... cache_list.append(...)
\* (run: the inputs, the result, the call's kwargs, the configuration)
RECURSIVE PairLoop(_, _, _, _, _)
Paired(run, idx, kwargs, cache_list, given, l) ==
    IF l.exc THEN Built(TRUE, cache_list, given, kwargs)
    ELSE PairLoop(run, idx + 1, l.kwargs,
                  Append(cache_list, <<l.cache_key, l.cached_data>>),
                  Append(given, By(run.call, idx, run.result.v[idx])))

Keyed(run, idx, kwargs, cache_list, given, preset_cache_key) ==
    IF preset_cache_key.exc THEN Built(TRUE, cache_list, given, kwargs)
    ELSE IF run.result.t # "EmbeddingResponse" \/ idx > Len(run.result.v)
    THEN Built(TRUE, cache_list, given, kwargs)
    ELSE Paired(run, idx, kwargs, cache_list, given,
                _add_cache_logic(run.cfg, run.provider_flag, run.current_time,
                                 run.result.v[idx],
                                 Put(kwargs, "cache_key", preset_cache_key.val)))

\* PairLoop that derives every key from the first input element
PairLoopFirstKey(run, idx, kwargs, cache_list, given) ==
    IF idx > Len(run.inputs) THEN Built(FALSE, cache_list, given, kwargs)
    ELSE Keyed(run, idx, kwargs, cache_list, given,
               get_cache_key(run.cfg.namespace, run.provider_flag,
                             Put(kwargs, "input", run.inputs[1])))

PairLoop(run, idx, kwargs, cache_list, given) ==
    IF idx > Len(run.inputs) THEN Built(FALSE, cache_list, given, kwargs)
    ELSE Keyed(run, idx, kwargs, cache_list, given,
               get_cache_key(run.cfg.namespace, run.provider_flag,
                             Put(kwargs, "input", run.inputs[idx])))

\* the single writes of the fan-out, in the order they complete
FanOut(built, order) ==
    [j \in DOMAIN order |->
        Write("async_set_cache", <<built.cache_list[order[j]]>>,
              <<built.given[order[j]]>>, built.kwargs)]

\* Flush that writes the pairs built before the build raised
FlushBuiltSoFar(be, built, order) ==
    Wrote(be.fails \/ built.exc,
          <<Write("async_set_cache_pipeline", built.cache_list, built.given,
                  built.kwargs)>>)

\* Flush that never looks for the bulk write of the backend
FlushFanOutOnly(be, built, order) ==
    IF built.exc THEN Wrote(TRUE, <<>>)
    ELSE Wrote(be.fails /\ Len(built.cache_list) > 0, FanOut(built, order))

\* the bulk write when the backend has one, the fan-out otherwise
Flush(be, built, order) ==
    IF built.exc THEN Wrote(TRUE, <<>>)
    ELSE IF be.pipeline
    THEN Wrote(be.fails,
               <<Write("async_set_cache_pipeline", built.cache_list, built.given,
                       built.kwargs)>>)
    ELSE Wrote(be.fails /\ Len(built.cache_list) > 0, FanOut(built, order))

\* the body after the policy check, kw being kwargs with the default ttl
Batch(cfg, provider_flag, be, current_time, result, kwargs, kw, order) ==
    IF ~Has(kw, "input") \/ ~Iterable(Get(kw, "input", None))
    THEN Wrote(TRUE, <<>>)
    ELSE Flush(be,
               PairLoop([cfg |-> cfg, provider_flag |-> provider_flag,
                         current_time |-> current_time, result |-> result,
                         call |-> kwargs, inputs |-> Elements(At(kw, "input"))],
                        1, kw, <<>>, <<>>),
               order)

\* order: the order in which the fanned-out writes complete
async_add_cache_pipeline(cfg, provider_flag, be, current_time, result, kwargs, order) ==
    Swallow(
        IF ~should_use_cache(cfg.mode, kwargs) THEN Wrote(FALSE, <<>>)
        ELSE Batch(cfg, provider_flag, be, current_time, result, kwargs,
                   DefaultTtl(cfg.ttl, kwargs), order))

\* whether the bound backend of a Cache of this type has the optional
\* method: the networked key-value store has ping, delete_cache_keys and
\* disconnect, the in-memory and the object store have none of them
Provides(type, capability) == type = "redis"

\* ping: getattr(self.cache, "ping") without a default, then the call
ping(cfg, be) ==
    IF ~Provides(cfg.type, "ping") THEN Raise
    ELSE IF be.fails THEN Raise
    ELSE Return(B(TRUE))

\* delete_cache_keys: getattr(self.cache, "delete_cache_keys") without a
\* default, then the call
delete_cache_keys(cfg, be, keys) ==
    IF ~Provides(cfg.type, "delete_cache_keys") THEN Raise
    ELSE IF be.fails THEN Raise
    ELSE Return(None)

\* disconnect: the call only if hasattr(self.cache, "disconnect")
disconnect(cfg, be) ==
    IF ~Provides(cfg.type, "disconnect") THEN Return(None)
    ELSE IF be.fails THEN Raise
    ELSE Return(None)

-----------------------------------------------------------------------------
(* Key derivation on its own: two call-argument mappings are drawn, A1 in  *)
(* the order a call site lists them and A2 as a reordering of A1 in which  *)
(* at most one value is changed; get_cache_key is applied to each.         *)

MaxParams == 3

Group12 == T(<<S("m1"), S("m2")>>)

KeyNames == <<"model", "messages", "top_k", "metadata", "litellm_params">>

KeyValues(name) ==
    CASE name = "model" -> {S("m1"), S("m2")}
      [] name = "messages" -> {S("hi"), None}
      [] name = "top_k" -> {N(5)}
      [] name = "metadata" ->
            {None,
             D([model_group |-> S("m1"), caching_groups |-> L(<<Group12>>)]),
             D([caching_groups |-> L(<<Group12>>)]),
             D([model_group |-> S("m3"), caching_groups |-> L(<<Group12>>)]),
             D([redis_namespace |-> S("o")]),
             D([redis_namespace |-> S("ns")])}
      [] name = "litellm_params" ->
            {None,
             D([preset_cache_key |-> S("pk")]),
             D([metadata |-> D([model_group |-> S("m2"),
                                caching_groups |-> L(<<Group12>>)])])}

\* the mapping that lists the present values of q in the order of names
RECURSIVE Compact(_, _, _)
Compact(names, q, i) ==
    IF i > Len(q) THEN <<>>
    ELSE (IF q[i] = Absent THEN <<>> ELSE << <<names[i], q[i]>> >>)
            \o Compact(names, q, i + 1)

KeyKwargs ==
    {kw \in {Compact(KeyNames, <<a, b, c, d, e>>, 1) :
                a \in KeyValues("model") \cup {Absent},
                b \in KeyValues("messages") \cup {Absent},
                c \in KeyValues("top_k") \cup {Absent},
                d \in KeyValues("metadata") \cup {Absent},
                e \in KeyValues("litellm_params") \cup {Absent}} :
        Len(kw) <= MaxParams}

\* kw with the value of at most one parameter changed
OneChanged(kw) ==
    {kw} \cup {[kw EXCEPT ![i] = <<kw[i][1], v>>] :
                    i \in DOMAIN kw, v \in UNION {KeyValues(kw[j][1]) : j \in DOMAIN kw}}

Reordered(kw) ==
    {[i \in DOMAIN kw |-> kw[p[i]]] : p \in Permutations(DOMAIN kw)}

Variants(kw) ==
    UNION {Reordered(c) : c \in {x \in OneChanged(kw) :
                \A i \in DOMAIN x : x[i][2] \in KeyValues(x[i][1])}}

Idle == [op |-> "none"]

InitKey ==
    /\ self \in {[type |-> "local", mode |-> "default_on", namespace |-> ns,
                  ttl |-> None, redis_flush_size |-> None] :
                    ns \in {None, S("ns")}}
    /\ flag \in BOOLEAN
    /\ backend = [fails |-> FALSE, pipeline |-> FALSE]
    /\ store = EmptyMap
    /\ buffer = <<>>
    /\ now = 0
    /\ last = Idle
    /\ A1 \in KeyKwargs
    /\ A2 \in Variants(A1)
    /\ key1 = Pending
    /\ key2 = Pending
    /\ cache = None
    /\ input_callback = <<"cache">>
    /\ success_callback = <<"cache">>
    /\ _async_success_callback = <<"cache">>
    /\ running = EmptyMap

DeriveFirst ==
    /\ key1 = Pending
    /\ key1' = get_cache_key(self.namespace, flag, A1)
    /\ UNCHANGED <<self, flag, backend, store, buffer, now, last, A1, A2, key2>>
    /\ UNCHANGED <<process, running>>

DeriveSecond ==
    /\ key1 # Pending
    /\ key2 = Pending
    /\ key2' = get_cache_key(self.namespace, flag, A2)
    /\ UNCHANGED <<self, flag, backend, store, buffer, now, last, A1, A2, key1>>
    /\ UNCHANGED <<process, running>>

NextKey == DeriveFirst \/ DeriveSecond

SpecKey == InitKey /\ [][NextKey]_vars

\* allow-listed names a call can pass as None
NullNames == {"model", "file", "messages", "input", "user"}

\* kw with one more parameter, of a name it does not have, passed as None
\* at any place
WithNull(kw) ==
    {SubSeq(kw, 1, i) \o << <<p, None>> >> \o SubSeq(kw, i + 1, Len(kw)) :
        i \in 0..Len(kw), p \in NullNames \ {kw[j][1] : j \in DOMAIN kw}}

\* A1 is drawn as before and A2 is A1 with one parameter more, passed as None
InitNull ==
    /\ self \in {[type |-> "local", mode |-> "default_on", namespace |-> ns,
                  ttl |-> None, redis_flush_size |-> None] :
                    ns \in {None, S("ns")}}
    /\ flag \in BOOLEAN
    /\ backend = [fails |-> FALSE, pipeline |-> FALSE]
    /\ store = EmptyMap
    /\ buffer = <<>>
    /\ now = 0
    /\ last = Idle
    /\ A1 \in KeyKwargs
    /\ A2 \in WithNull(A1)
    /\ key1 = Pending
    /\ key2 = Pending
    /\ cache = None
    /\ input_callback = <<"cache">>
    /\ success_callback = <<"cache">>
    /\ _async_success_callback = <<"cache">>
    /\ running = EmptyMap

SpecNull == InitNull /\ [][NextKey]_vars

-----------------------------------------------------------------------------
(* The orchestrator in use: a caller makes one call at a time on a Cache   *)
(* built with some configuration, and takes its result before the next.    *)

MaxTime == 1
MaxEntries == 1
MaxBatch == 2

Model1 == M([id |-> S("r1")])

BatchInputs == <<S("a"), S("b"), S("a")>>
BatchItems == <<Record1, Record2, Record1>>

CallNames == <<"messages", "input", "cache", "cache_key", "metadata", "litellm_params">>

UseCache == D(("use-cache" :> B(TRUE)))
UseCacheMaxAge == D(("use-cache" :> B(TRUE)) @@ ("s-maxage" :> N(0)))
UseCacheBoth ==
    D(("use-cache" :> B(TRUE)) @@ ("s-maxage" :> N(0)) @@ ("s-max-age" :> N(5)))
UseCacheTtl == D(("use-cache" :> B(TRUE)) @@ ("ttl" :> N(5)))
Preset == D([preset_cache_key |-> S("pk")])

\* the calls get_cache, async_get_cache, add_cache and async_add_cache take
SingleKwargs ==
    {Compact(CallNames, <<Absent, i, c, Absent, Absent, Absent>>, 1) :
        i \in {S("a"), S("b")}, c \in {Absent, UseCache, UseCacheMaxAge}}
    \cup {Compact(CallNames, <<Absent, S("a"), c, Absent, Absent, Absent>>, 1) :
        c \in {None, UseCacheTtl, UseCacheBoth}}
    \cup {Compact(CallNames, <<Absent, S("a"), UseCache, k, Absent, Absent>>, 1) :
        k \in {S("k1"), None}}
    \cup {Compact(CallNames, <<Absent, S("a"), UseCache, Absent, m, l>>, 1) :
        m \in {Absent, None}, l \in {Absent, Preset}}

\* the calls async_add_cache_pipeline takes
ListKwargs ==
    {Compact(CallNames, <<Absent, i, c, Absent, Absent, Absent>>, 1) :
        i \in {L(SubSeq(BatchInputs, 1, n)) : n \in 1..MaxBatch} \cup {S("a")},
        c \in {Absent, UseCache}}
    \cup {Compact(CallNames, <<Absent, L(SubSeq(BatchInputs, 1, 2)), UseCache,
                               Absent, Absent, Preset>>, 1),
          Compact(CallNames, <<Absent, L(SubSeq(BatchInputs, 1, 2)), UseCache,
                               S("k1"), Absent, Absent>>, 1),
          Compact(CallNames, <<Absent, L(SubSeq(BatchInputs, 1, 2)), UseCacheTtl,
                               Absent, Absent, Absent>>, 1),
          Compact(CallNames, <<S("hi"), Absent, UseCache, Absent, Absent,
                               Absent>>, 1)}

\* the calls that read back one element of a batch: a batch call with its
\* input replaced by one of the elements
ElementKwargs ==
    {Put(kwargs, "input", e) :
        kwargs \in {k \in ListKwargs : Get(k, "input", None).t = "list"},
        e \in {BatchInputs[i] : i \in 1..MaxBatch}}

Responses == {Record1, Model1, S("hello"), S(PyText(Record1))}

BatchResults == {E(SubSeq(BatchItems, 1, n)) : n \in 1..MaxBatch} \cup {Record1}

\* the backend kinds: in-memory, object store (no bulk write), networked
\* key-value store with the flush-based batching
Kinds == {<<"local", None>>, <<"s3", None>>, <<"redis", N(2)>>}

Configurations ==
    {[type |-> b[1], mode |-> m, namespace |-> None, ttl |-> ttl,
      redis_flush_size |-> b[2]] :
        b \in Kinds, m \in {"default_on", "default_off"}, ttl \in {None, N(60)}}

\* whether the backend of a Cache of this type has async_set_cache_pipeline
HasPipeline(type) == type # "s3"

Init ==
    /\ self \in Configurations
    /\ flag = FALSE
    /\ backend \in {[fails |-> f, pipeline |-> HasPipeline(self.type)] :
                        f \in BOOLEAN}
    /\ store = EmptyMap
    /\ buffer = <<>>
    /\ now = 0
    /\ last = Idle
    /\ A1 = <<>>
    /\ A2 = <<>>
    /\ key1 = Pending
    /\ key2 = Pending
    /\ cache = None
    /\ input_callback = <<"cache">>
    /\ success_callback = <<"cache">>
    /\ _async_success_callback = <<"cache">>
    /\ running = EmptyMap

\* the backend serves the writes of a call, unless it fails them; it has
\* room for capacity items
Served(writes, capacity) ==
    /\ store' = IF backend.fails THEN store
                ELSE StoreAfter(store, buffer, writes, 1, self.redis_flush_size)
    /\ buffer' = IF backend.fails THEN buffer
                 ELSE BufferAfterAll(buffer, writes, 1, self.redis_flush_size)
    /\ Cardinality(DOMAIN store') + Len(buffer') <= capacity

\* a read returns: the call and its result are what the caller sees
Returned(op, kwargs, out) ==
    /\ last' = [op |-> op, kwargs |-> kwargs, result |-> None, ret |-> out.val,
                raised |-> out.exc, reads |-> out.reads, writes |-> <<>>]
    /\ UNCHANGED <<self, flag, backend, store, buffer, now, A1, A2, key1, key2>>
    /\ UNCHANGED <<process, running>>

\* a write that kept the ttl it resolved as the default of the configuration
WrittenKeepingTtl(op, kwargs, result, out, capacity) ==
    /\ Served(out.writes, capacity)
    /\ last' = [op |-> op, kwargs |-> kwargs, result |-> result, ret |-> out.val,
                raised |-> out.exc, reads |-> 0, writes |-> out.writes]
    /\ self' = IF out.writes # <<>> /\ out.writes[1].ttl # Absent
               THEN [self EXCEPT !.ttl = out.writes[1].ttl]
               ELSE self
    /\ UNCHANGED <<flag, backend, now, A1, A2, key1, key2>>
    /\ UNCHANGED <<process, running>>

\* a write returns, the backend having served what it issued
Written(op, kwargs, result, out, capacity) ==
    /\ Served(out.writes, capacity)
    /\ last' = [op |-> op, kwargs |-> kwargs, result |-> result, ret |-> out.val,
                raised |-> out.exc, reads |-> 0, writes |-> out.writes]
    /\ UNCHANGED <<self, flag, backend, now, A1, A2, key1, key2>>
    /\ UNCHANGED <<process, running>>

GetCache(calls) ==
    /\ last = Idle
    /\ \E kwargs \in calls :
        Returned("get_cache", kwargs,
                 get_cache(self, flag, backend, store, now, kwargs))

AsyncGetCache(calls) ==
    /\ last = Idle
    /\ \E kwargs \in calls :
        Returned("async_get_cache", kwargs,
                 async_get_cache(self, flag, backend, store, now, kwargs))

AddCache(calls, capacity) ==
    /\ last = Idle
    /\ \E kwargs \in calls, result \in Responses :
        Written("add_cache", kwargs, result,
                add_cache(self, flag, backend, now, result, kwargs), capacity)

AsyncAddCache(calls, capacity) ==
    /\ last = Idle
    /\ \E kwargs \in calls, result \in Responses :
        Written("async_add_cache", kwargs, result,
                async_add_cache(self, flag, backend, now, result, kwargs),
                capacity)

\* the orders in which the single writes a call fans out can complete
Orders(input) ==
    IF backend.pipeline \/ ~Iterable(input) THEN {<<>>}
    ELSE Permutations(1..Len(Elements(input)))

AsyncAddCachePipeline(calls, capacity) ==
    /\ last = Idle
    /\ \E kwargs \in calls, result \in BatchResults :
        \E order \in Orders(Get(kwargs, "input", None)) :
            Written("async_add_cache_pipeline", kwargs, result,
                    async_add_cache_pipeline(self, flag, backend, now, result,
                                             kwargs, order),
                    capacity)

\* time passes
Tick ==
    /\ last = Idle
    /\ now < MaxTime
    /\ now' = now + 1
    /\ UNCHANGED <<self, flag, backend, store, buffer, last, A1, A2, key1, key2>>
    /\ UNCHANGED <<process, running>>

\* the caller takes the result of the call
Done ==
    /\ last # Idle
    /\ last' = Idle
    /\ UNCHANGED <<self, flag, backend, store, buffer, now, A1, A2, key1, key2>>
    /\ UNCHANGED <<process, running>>

\* a call that is no read and no write of entries returns
Answered(op, kwargs, keys, out) ==
    /\ last' = [op |-> op, kwargs |-> kwargs, result |-> None, ret |-> out.val,
                raised |-> out.exc, reads |-> 0, writes |-> <<>>, keys |-> keys]
    /\ UNCHANGED <<self, flag, backend, buffer, now, A1, A2, key1, key2>>
    /\ UNCHANGED <<process, running>>

\* get_cache_key called from outside, as the wrappers of the model calls do
GetCacheKey(calls) ==
    /\ last = Idle
    /\ \E kwargs \in calls :
        /\ Answered("get_cache_key", kwargs, {},
                    get_cache_key(self.namespace, flag, kwargs))
        /\ store' = store

Ping ==
    /\ last = Idle
    /\ Answered("ping", <<>>, {}, ping(self, backend))
    /\ store' = store

\* the backend's delete_cache_keys drops the keys it is given
Deleted(keys, out) ==
    store' = IF out.exc THEN store ELSE [k \in DOMAIN store \ keys |-> store[k]]

DeleteCacheKeys ==
    /\ last = Idle
    /\ \E k \in DOMAIN store \cup {"k1"} :
        /\ Answered("delete_cache_keys", <<>>, {k},
                    delete_cache_keys(self, backend, {k}))
        /\ Deleted({k}, delete_cache_keys(self, backend, {k}))

Disconnect ==
    /\ last = Idle
    /\ Answered("disconnect", <<>>, {}, disconnect(self, backend))
    /\ store' = store

Next ==
    \/ GetCache(SingleKwargs)
    \/ AsyncGetCache(SingleKwargs)
    \/ AddCache(SingleKwargs, MaxEntries)
    \/ AsyncAddCache(SingleKwargs, MaxEntries)
    \/ AsyncAddCachePipeline(ListKwargs, MaxEntries)
    \/ GetCacheKey(SingleKwargs)
    \/ Ping
    \/ DeleteCacheKeys
    \/ Disconnect
    \/ Tick
    \/ Done

Spec == Init /\ [][Next]_vars

\* batches written and read back element by element, the backend having room
\* for a whole batch
NextBatch ==
    \/ AsyncAddCachePipeline(ListKwargs, MaxBatch)
    \/ GetCache(ElementKwargs)
    \/ Tick
    \/ Done

SpecBatch == Init /\ [][NextBatch]_vars

-----------------------------------------------------------------------------
(* The non-blocking writes on the event loop. A call of async_add_cache or *)
(* async_add_cache_pipeline runs without interruption up to its await; the *)
(* backend writes it awaits are then in flight, each is served by the      *)
(* backend in one step, in any order, and the caller resumes when the      *)
(* awaited write or asyncio.gather hands back: gather, called without      *)
(* return_exceptions, hands back when every write is done or as soon as    *)
(* one has raised, the others staying in flight.                           *)

MaxCalls == 2

\* the calls in progress at once take
LoopKwargs ==
    {Compact(CallNames, <<Absent, i, UseCache, Absent, Absent, Absent>>, 1) :
        i \in {S("a"), S("b")}}

LoopResponses == {Record1, S("hello")}

LoopBatches ==
    {Compact(CallNames, <<Absent, L(SubSeq(BatchInputs, 1, n)), UseCache, Absent,
                          Absent, Absent>>, 1) : n \in 1..MaxBatch}

\* the writes served so far, of all calls in progress
Served1 ==
    UNION {{<<c, i>> : i \in {j \in DOMAIN running[c].stamps :
                                  running[c].stamps[j] > 0}} :
           c \in DOMAIN running}

\* a call has reached its await with the writes of out in flight
Awaiting(op, kwargs, result, out) ==
    /\ Cardinality(DOMAIN running) < MaxCalls
    /\ running' = (Cardinality(DOMAIN running) + 1 :>
                      [op |-> op, kwargs |-> kwargs, result |-> result,
                       at |-> now, writes |-> out.writes,
                       stamps |-> [i \in DOMAIN out.writes |-> 0],
                       returned |-> FALSE]) @@ running
    /\ UNCHANGED <<orchestrator, last, derivation, process>>

BeginAdd ==
    \E kwargs \in LoopKwargs, result \in LoopResponses :
        Awaiting("async_add_cache", kwargs, result,
                 async_add_cache(self, flag, backend, now, result, kwargs))

\* the fanned-out writes are created in the order of cache_list
BeginPipeline ==
    \E kwargs \in LoopBatches, result \in BatchResults :
        Awaiting("async_add_cache_pipeline", kwargs, result,
                 async_add_cache_pipeline(self, flag, backend, now, result, kwargs,
                     [i \in DOMAIN Elements(At(kwargs, "input")) |-> i]))

\* the backend serves one write in flight, or fails it
Complete ==
    \E c \in DOMAIN running :
        \E i \in DOMAIN running[c].writes :
            /\ running[c].stamps[i] = 0
            /\ running' = [running EXCEPT ![c].stamps[i] = Cardinality(Served1) + 1]
            /\ store' = IF backend.fails THEN store
                        ELSE StoreAfter(store, buffer, <<running[c].writes[i]>>, 1,
                                        self.redis_flush_size)
            /\ buffer' = IF backend.fails THEN buffer
                         ELSE BufferAfterAll(buffer, <<running[c].writes[i]>>, 1,
                                             self.redis_flush_size)
            /\ Cardinality(DOMAIN store') + Len(buffer') <= MaxBatch
            /\ UNCHANGED <<self, flag, backend, now, last, derivation, process>>

\* the await hands back: every write is done, or one of them has raised
HandsBack(call) ==
    \/ \A i \in DOMAIN call.stamps : call.stamps[i] > 0
    \/ backend.fails /\ \E i \in DOMAIN call.stamps : call.stamps[i] > 0

\* the call resumes after its await; the except clause logs what was raised
\* and the call returns None
Resume ==
    \E c \in DOMAIN running :
        /\ ~running[c].returned
        /\ HandsBack(running[c])
        /\ running' = [running EXCEPT ![c].returned = TRUE]
        /\ UNCHANGED <<orchestrator, last, derivation, process>>

\* the callers have their results and no write is left in flight
Collect ==
    /\ running # EmptyMap
    /\ \A c \in DOMAIN running :
          /\ running[c].returned
          /\ \A i \in DOMAIN running[c].stamps : running[c].stamps[i] > 0
    /\ running' = EmptyMap
    /\ UNCHANGED <<orchestrator, last, derivation, process>>

NextLoop ==
    \/ BeginAdd
    \/ BeginPipeline
    \/ Complete
    \/ Resume
    \/ Collect
    \/ Tick

SpecLoop == Init /\ [][NextLoop]_vars

-----------------------------------------------------------------------------
(* Cache.__init__ and the process-wide toggle: enable_cache, update_cache  *)
(* and disable_cache act on litellm.cache and on the three callback lists, *)
(* which the program shares with whoever else registers callbacks.         *)

MaxCallbacks == 2

\* the values of LiteLLMCacheType that Cache.__init__ has a branch for
EnumeratedKinds ==
    {"redis", "redis-semantic", "qdrant-semantic", "local", "s3", "disk"}

\* the class of the backend that __init__ binds to self.cache; Absent when
\* no branch is taken and self.cache is never assigned
BackendOf(type) ==
    CASE type = "redis" -> S("RedisCache")
      [] type = "redis-semantic" -> S("RedisSemanticCache")
      [] type = "qdrant-semantic" -> S("QdrantSemanticCache")
      [] type = "local" -> S("InMemoryCache")
      [] type = "s3" -> S("S3Cache")
      [] type = "disk" -> S("DiskCache")
      [] OTHER -> Absent

\* "cache" in callbacks
Registered(callbacks) == \E i \in DOMAIN callbacks : callbacks[i] = "cache"

\* callbacks.append("cache") without the membership test
AppendedAlways(callbacks) == Append(callbacks, "cache")

\* if "cache" not in callbacks: callbacks.append("cache")
Appended(callbacks) ==
    IF Registered(callbacks) THEN callbacks ELSE Append(callbacks, "cache")

\* self.ttl after the two overrides
InitTtl(args) ==
    IF args.type \in {"redis", "redis-semantic"} /\ args.default_in_redis_ttl # None
    THEN args.default_in_redis_ttl
    ELSE IF args.type = "local" /\ args.default_in_memory_ttl # None
    THEN args.default_in_memory_ttl
    ELSE args.ttl

\* the fields of the object __init__ leaves
Constructed(args) ==
    [type |-> args.type,
     mode |-> IF args.mode = "" THEN "default_on" ELSE args.mode,
     namespace |-> args.namespace,
     ttl |-> InitTtl(args),
     redis_flush_size |-> args.redis_flush_size,
     cache |-> BackendOf(args.type)]

Built1(exc, error, val) == [exc |-> exc, error |-> error, val |-> val]

\* Cache(**args): the object, or the exception of the read of self.cache
\* that was never assigned
CacheInit(args) ==
    IF args.namespace # None /\ BackendOf(args.type) = Absent
    THEN Built1(TRUE, "AttributeError", None)
    ELSE Built1(FALSE, "", Constructed(args))

\* list.remove("cache"): the list without the first "cache"
RECURSIVE Removed(_)
Removed(callbacks) ==
    IF callbacks = <<>> THEN <<>>
    ELSE IF Head(callbacks) = "cache" THEN Tail(callbacks)
    ELSE <<Head(callbacks)>> \o Removed(Tail(callbacks))

\* the three lists after the with suppress(ValueError) block of
\* disable_cache: a remove that raises ends the block
Suppressed(ic, sc, ac) ==
    IF ~Registered(ic) THEN <<ic, sc, ac>>
    ELSE IF ~Registered(sc) THEN <<Removed(ic), sc, ac>>
    ELSE IF ~Registered(ac) THEN <<Removed(ic), Removed(sc), ac>>
    ELSE <<Removed(ic), Removed(sc), Removed(ac)>>

\* the arguments Cache, enable_cache and update_cache are called with
ToggleArgs ==
    {[type |-> t, mode |-> "", namespace |-> ns, ttl |-> None,
      redis_flush_size |-> None, default_in_memory_ttl |-> None,
      default_in_redis_ttl |-> None] :
        t \in {"local", "redis", "mongo"}, ns \in {None, S("ns")}}
    \cup {[type |-> "local", mode |-> "default_off", namespace |-> None,
           ttl |-> N(60), redis_flush_size |-> None,
           default_in_memory_ttl |-> N(30), default_in_redis_ttl |-> N(90)]}

\* the contents a callback list can have
RECURSIVE CallbackLists(_)
CallbackLists(n) ==
    IF n = 0 THEN {<<>>}
    ELSE CallbackLists(n - 1)
         \cup {Append(q, c) : q \in {x \in CallbackLists(n - 1) : Len(x) = n - 1},
                              c \in {"cache", "langfuse"}}

InitToggle ==
    /\ self = [type |-> "local", mode |-> "default_on", namespace |-> None,
               ttl |-> None, redis_flush_size |-> None]
    /\ flag = FALSE
    /\ backend = [fails |-> FALSE, pipeline |-> TRUE]
    /\ store = EmptyMap
    /\ buffer = <<>>
    /\ now = 0
    /\ last = Idle
    /\ A1 = <<>>
    /\ A2 = <<>>
    /\ key1 = Pending
    /\ key2 = Pending
    /\ cache = None
    /\ input_callback \in CallbackLists(MaxCallbacks)
    /\ success_callback \in CallbackLists(MaxCallbacks)
    /\ _async_success_callback \in CallbackLists(MaxCallbacks)
    /\ running = EmptyMap

\* what a call on the toggle leaves in last
Toggled(op, args, out) ==
    [op |-> op, args |-> args, raised |-> out.exc, error |-> out.error,
     ret |-> out.val]

\* the callback registration at the head of __init__ and of enable_cache
Register ==
    /\ input_callback' = Appended(input_callback)
    /\ success_callback' = Appended(success_callback)
    /\ _async_success_callback' = Appended(_async_success_callback)

\* Cache(**args), called by the user
Construct ==
    \E args \in ToggleArgs :
        /\ Register
        /\ last' = Toggled("Cache", args, CacheInit(args))
        /\ UNCHANGED <<cache, orchestrator, derivation, running>>

\* a call that builds the Cache and leaves litellm.cache as it was
BoundNever(op, args, out) ==
    /\ cache' = cache
    /\ last' = Toggled(op, args, [out EXCEPT !.val = None])

\* the binding of litellm.cache to what the constructor gave, unless it raised
Bound(op, args, out) ==
    /\ cache' = IF out.exc THEN cache ELSE out.val
    /\ last' = Toggled(op, args, [out EXCEPT !.val = None])

EnableCache ==
    \E args \in ToggleArgs :
        /\ Register
        /\ IF cache = None
           THEN Bound("enable_cache", args, CacheInit(args))
           ELSE /\ cache' = cache
                /\ last' = Toggled("enable_cache", args, Built1(FALSE, "", None))
        /\ UNCHANGED <<orchestrator, derivation, running>>

UpdateCache ==
    \E args \in ToggleArgs :
        /\ Register
        /\ Bound("update_cache", args, CacheInit(args))
        /\ UNCHANGED <<orchestrator, derivation, running>>

DisableCache ==
    /\ input_callback' =
          Suppressed(input_callback, success_callback, _async_success_callback)[1]
    /\ success_callback' =
          Suppressed(input_callback, success_callback, _async_success_callback)[2]
    /\ _async_success_callback' =
          Suppressed(input_callback, success_callback, _async_success_callback)[3]
    /\ cache' = None
    /\ last' = Toggled("disable_cache", None, Built1(FALSE, "", None))
    /\ UNCHANGED <<orchestrator, derivation, running>>

NextToggle == Construct \/ EnableCache \/ UpdateCache \/ DisableCache

SpecToggle == InitToggle /\ [][NextToggle]_vars

\* the process as the module is imported: no cache, no callbacks
InitUnset ==
    /\ InitToggle
    /\ input_callback = <<>>
    /\ success_callback = <<>>
    /\ _async_success_callback = <<>>

SpecUnset == InitUnset /\ [][NextToggle]_vars

-----------------------------------------------------------------------------
(* Properties of key derivation, under SpecKey *)

\* the text s begins with the text p
IsPrefix(p, s) == Len(p) <= Len(s) /\ SubSeq(s, 1, Len(p)) = p

\* get_cache_key was applied and returned k
Derived(k) == k # Pending /\ ~k.exc

\* the same (name, value) items, listed in any order
SameItems(a, b) ==
    Len(a) = Len(b) /\ {a[i] : i \in DOMAIN a} = {b[i] : i \in DOMAIN b}

\* the same names in the same order and the same values, but for the model
DifferOnlyInModel(a, b) ==
    /\ Len(a) = Len(b)
    /\ \A i \in DOMAIN a :
          /\ a[i][1] = b[i][1]
          /\ a[i][1] # "model" => a[i][2] = b[i][2]
    /\ \E i \in DOMAIN a : a[i][1] = "model"

\* the value the mapping gives to name, Absent without one
Given(kw, name) ==
    IF \E i \in DOMAIN kw : kw[i][1] = name
    THEN (CHOOSE item \in {kw[i] : i \in DOMAIN kw} : item[1] = name)[2]
    ELSE Absent

Field(x, name) ==
    IF x.t = "dict" /\ name \in DOMAIN x.v THEN x.v[name] ELSE Absent

\* the pre-computed key, the per-call namespace override, the model_group
\* and the caching groups a call supplies
SuppliedPreset(kw) == Field(Given(kw, "litellm_params"), "preset_cache_key")
SuppliedOverride(kw) == Field(Given(kw, "metadata"), "redis_namespace")
SuppliedModelGroup(kw) == Field(Given(kw, "metadata"), "model_group")
SuppliedGroups(kw) ==
    LET g == Field(Given(kw, "metadata"), "caching_groups")
    IN  IF g = Absent THEN {} ELSE {g.v[i] : i \in DOMAIN g.v}

HasValue(x) == x # Absent /\ x # None

Members(group) == {group.v[i] : i \in DOMAIN group.v}

\* C1: two mappings with the same names and values, supplied in a different
\* order, derive the same key.
C1_OrderIndependent ==
    (Derived(key1) /\ Derived(key2) /\ SameItems(A1, A2)) => key1 = key2

\* C7 as stated: when the metadata declares a caching group that contains
\* the model, two calls that differ only in which model of that group they
\* name derive the same key.
C7_Original ==
    (/\ Derived(key1) /\ Derived(key2)
     /\ DifferOnlyInModel(A1, A2)
     /\ \E g \in SuppliedGroups(A1) :
            Given(A1, "model") \in Members(g) /\ Given(A2, "model") \in Members(g))
    => key1 = key2

\* C7: when the metadata carries a model_group and declares a caching group
\* that contains that model_group and the model, two calls that differ only
\* in which model of that group they name derive the same key.
C7_GroupSubstitution ==
    (/\ Derived(key1) /\ Derived(key2)
     /\ DifferOnlyInModel(A1, A2)
     /\ \E g \in SuppliedGroups(A1) :
            /\ Given(A1, "model") \in Members(g)
            /\ Given(A2, "model") \in Members(g)
            /\ SuppliedModelGroup(A1) \in Members(g))
    => key1 = key2

C7_Witness ==
    /\ Derived(key1) /\ Derived(key2)
    /\ DifferOnlyInModel(A1, A2)
    /\ Given(A1, "model") = S("m1") /\ Given(A2, "model") = S("m2")
    /\ SuppliedModelGroup(A1) = S("m1")
    /\ Group12 \in SuppliedGroups(A1)
    /\ ~HasValue(SuppliedPreset(A1))
    /\ key1 = key2

\* the key k of a call kw with a namespace override o is "o:" and a bare digest
OverrideWins(kw, k) ==
    (Derived(k) /\ HasValue(SuppliedOverride(kw)) /\ ~HasValue(SuppliedPreset(kw)))
    => LET o == SuppliedOverride(kw).v \o ":"
       IN  /\ IsPrefix(o, k.val.v)
           /\ IsPrefix("sha256<", SubSeq(k.val.v, Len(o) + 1, Len(k.val.v)))

\* C8 as stated: with a namespace override o in the metadata, the key is
\* prefixed "o:" and is not prefixed with the configuration namespace.
C8_Original ==
    \A c \in {<<A1, key1>>, <<A2, key2>>} :
        (Derived(c[2]) /\ HasValue(SuppliedOverride(c[1])))
        => /\ IsPrefix(SuppliedOverride(c[1]).v \o ":", c[2].val.v)
           /\ self.namespace # None
                => ~IsPrefix(self.namespace.v \o ":", c[2].val.v)

\* C8: with a namespace override o in the metadata and no pre-computed key,
\* the key is "o:" followed by the digest, whatever the configuration
\* namespace is: the configuration namespace is not added to it.
C8_OverridePrecedence == OverrideWins(A1, key1) /\ OverrideWins(A2, key2)

C8_Witness ==
    /\ Derived(key1)
    /\ self.namespace = S("ns")
    /\ SuppliedOverride(A1) = S("o")
    /\ Given(A1, "model") = S("m1")
    /\ key1.val = S("o:sha256<model: m1>")

\* the key k of a call kw without a namespace override starts with "ns:"
ConfigPrefix(kw, k, presetToo) ==
    (/\ Derived(k)
     /\ self.namespace = S("ns")
     /\ ~HasValue(SuppliedOverride(kw))
     /\ presetToo \/ ~HasValue(SuppliedPreset(kw)))
    => IsPrefix("ns:", k.val.v)

\* C9 as stated: under the configuration namespace "ns", every key of a
\* call without a namespace override is prefixed "ns:", a call that supplies
\* a pre-computed key included.
C9_Original == ConfigPrefix(A1, key1, TRUE) /\ ConfigPrefix(A2, key2, TRUE)

\* C9: under the configuration namespace "ns", every key of a call that
\* carries neither a namespace override nor a pre-computed key is prefixed
\* "ns:".
C9_ConfigNamespace == ConfigPrefix(A1, key1, FALSE) /\ ConfigPrefix(A2, key2, FALSE)

C9_Witness ==
    /\ Derived(key2)
    /\ self.namespace = S("ns")
    /\ Len(A2) = 3
    /\ Given(A2, "metadata") # Absent
    /\ ~HasValue(SuppliedOverride(A2))
    /\ ~HasValue(SuppliedPreset(A2))
    /\ IsPrefix("ns:sha256<", key2.val.v)

\* get_cache_key applied to kw gave its pre-computed key back
PresetVerbatim(kw, k) ==
    (k # Pending /\ HasValue(SuppliedPreset(kw))) => k = Return(SuppliedPreset(kw))

\* C10: a call that supplies a non-null pre-computed key gets exactly that
\* value from get_cache_key, whatever its other arguments, the configuration
\* namespace and the namespace override are.
C10_PresetVerbatim == PresetVerbatim(A1, key1) /\ PresetVerbatim(A2, key2)

C10_Witness ==
    /\ key1 = Return(S("pk"))
    /\ self.namespace = S("ns")
    /\ SuppliedOverride(A1) = S("o")
    /\ Given(A1, "model") # Absent

\* C11: get_cache_key returns a key string and never raises, for every
\* call-argument mapping, mappings whose metadata or litellm_params is absent
\* or explicitly null and mappings with a model parameter included.
C11_NoFailure ==
    \A k \in {key1, key2} : k # Pending => (~k.exc /\ k.val.t = "str")


\* the name A2 has and A1 has not
Added == CHOOSE p \in {A2[j][1] : j \in DOMAIN A2} \ {A1[j][1] : j \in DOMAIN A1} : TRUE

BothApplied == key1 # Pending /\ key2 # Pending

\* C22 as stated, under SpecNull: a mapping with one more allow-listed
\* parameter, model and file included, passed as None gives what the mapping
\* without it gives
C22_Original == BothApplied => key2 = key1

\* C22, under SpecNull: for every allow-listed parameter name p other than
\* model and file and every mapping A that does not contain p,
\* get_cache_key(A with p = None) gives what get_cache_key(A) gives
C22_NullOmitted ==
    (BothApplied /\ Added \notin {"model", "file"}) => key2 = key1

\* messages = None was added to a mapping with a model and the key is the
\* same
C22_Witness ==
    /\ Derived(key1) /\ Derived(key2)
    /\ Added = "messages"
    /\ HasValue(Given(A1, "model"))
    /\ ~HasValue(SuppliedPreset(A1))
    /\ key2 = key1

\* the model_group and the caching groups of litellm_params["metadata"]
InnerMetadata(kw) == Field(Given(kw, "litellm_params"), "metadata")
InnerModelGroup(kw) == Field(InnerMetadata(kw), "model_group")
InnerGroups(kw) ==
    IF Field(InnerMetadata(kw), "caching_groups") = Absent THEN {}
    ELSE {Field(InnerMetadata(kw), "caching_groups").v[i] :
            i \in DOMAIN Field(InnerMetadata(kw), "caching_groups").v}

\* a model_group is carried and a declared caching group contains it
GroupMatches(kw) ==
    \/ \E g \in SuppliedGroups(kw) : SuppliedModelGroup(kw) \in Members(g)
    \/ \E g \in InnerGroups(kw) : InnerModelGroup(kw) \in Members(g)

CarriesModelGroup(kw) ==
    HasValue(SuppliedModelGroup(kw)) \/ HasValue(InnerModelGroup(kw))

\* the string get_cache_key concatenates before hashing
Concatenated(kw) == KeyLoop(kw, 1, "", flag)

\* A1 and A2 differ only in the model they name, and do
ModelsDiffer ==
    /\ Derived(key1) /\ Derived(key2)
    /\ DifferOnlyInModel(A1, A2)
    /\ Given(A1, "model") # Given(A2, "model")

LiteralModel ==
    /\ ModelValue(A1) = Return(Given(A1, "model"))
    /\ ModelValue(A2) = Return(Given(A2, "model"))
    /\ Concatenated(A1) # Concatenated(A2)

-----------------------------------------------------------------------------
(* Properties of the read and write paths, under Spec *)

\* the five calls that read or write entries
CacheCalls ==
    {"get_cache", "async_get_cache", "add_cache", "async_add_cache",
     "async_add_cache_pipeline"}

\* one of them has been made and its result not yet taken
Called == last.op \in CacheCalls

IsGet == Called /\ last.op \in {"get_cache", "async_get_cache"}

\* the cache-control mapping of a call, None when it carries none
Control(kwargs) == Get(kwargs, "cache", None)

\* the call carries a cache-control mapping with use-cache set to true
OptsIn(kwargs) ==
    /\ IsDict(Control(kwargs))
    /\ "use-cache" \in DOMAIN Control(kwargs).v
    /\ Control(kwargs).v["use-cache"] = B(TRUE)

\* the call's cache-control is a mapping, or the call carries none
ControlIsMapping(kwargs) == ~Has(kwargs, "cache") \/ IsDict(Control(kwargs))

\* what one step that makes a call must satisfy for C2
C2_Step ==
    (last = Idle /\ last'.op \in CacheCalls) =>
        /\ (self.mode = "default_off" /\ ~OptsIn(last'.kwargs)) =>
              /\ last'.reads = 0
              /\ last'.writes = <<>>
              /\ last'.ret = None
              /\ store' = store
              /\ buffer' = buffer
        /\ self.mode = "default_on" => should_use_cache(self.mode, last'.kwargs)

\* C2: under default_off a call of any of the five operations whose
\* arguments carry no cache-control mapping with use-cache true issues no
\* backend read and no backend write, leaves the backend as it was and, for
\* a get, returns a miss; under default_on the policy decision is true for
\* every call
C2_PolicyGate == [][C2_Step]_vars

\* a get under default_off without the opt-in comes back a miss although
\* the backend holds an entry
C2_Witness ==
    /\ IsGet
    /\ self.mode = "default_off"
    /\ ~OptsIn(last.kwargs)
    /\ store # EmptyMap
    /\ last.reads = 0
    /\ last.ret = None

\* the get in last follows, with no time passed, a single write made with
\* the same call arguments, whose entry the backend holds under key k
FollowsAdd(k) ==
    /\ Called
    /\ last.op = "get_cache"
    /\ k \in DOMAIN store
    /\ store[k].given.idx = 0
    /\ store[k].given.kwargs = last.kwargs
    /\ store[k].value.v["timestamp"].v = now

C4_NonBlocking ==
    (backend.fails /\ Called) =>
        /\ ~last.raised
        /\ last.ret = None
        /\ store = EmptyMap
        /\ buffer = <<>>

\* a batch write was issued to the failing backend and came back quietly
C4_Witness ==
    /\ backend.fails
    /\ Called
    /\ last.op = "async_add_cache_pipeline"
    /\ Len(last.writes) > 0
    /\ ~last.raised

\* the get in last was allowed by the policy and looked up key k, under
\* which the working backend holds an entry
Finds(k) ==
    /\ IsGet
    /\ ~backend.fails
    /\ should_use_cache(self.mode, last.kwargs)
    /\ CallKey(self.namespace, flag, last.kwargs) = Return(S(k))
    /\ k \in DOMAIN store

\* the max-age values the caller specified
Bounds(kwargs) ==
    IF IsDict(Control(kwargs))
    THEN {Control(kwargs).v[n] :
              n \in {"s-maxage", "s-max-age"} \cap DOMAIN Control(kwargs).v}
    ELSE {}

\* the caller specified a max-age and the entry under k is older than it
Stale(k) ==
    \E m \in Bounds(last.kwargs) :
        m.t = "num" /\ now - store[k].value.v["timestamp"].v > m.v

\* the stored response is a structured record or the text of one
Decodable(response) ==
    \/ IsDict(response)
    \/ /\ response.t = "str"
       /\ \E d \in Documents \ {None} : response.v \in {JsonText(d), PyText(d)}

\* C5 as stated: a get that finds an entry misses exactly when a max-age
\* was specified and the entry is older than it
C5_Original ==
    \A k \in DOMAIN store : Finds(k) => (last.ret = None <=> Stale(k))

\* C5: for a stored entry whose response is a structured record or the
\* text of one, a get whose cache-control is a mapping or absent and names
\* at most one max-age returns a miss exactly when a max-age was specified
\* and now - timestamp is strictly greater than it; otherwise it returns the
\* decoded response whatever the age
C5_Freshness ==
    \A k \in DOMAIN store :
        (/\ Finds(k)
         /\ ControlIsMapping(last.kwargs)
         /\ Cardinality(Bounds(last.kwargs)) <= 1
         /\ Decodable(store[k].value.v["response"])) =>
            /\ last.ret = None <=> Stale(k)
            /\ ~Stale(k) => last.ret \in Documents \ {None}

\* an entry older than the max-age of the get was found and not returned
C5_Witness ==
    \E k \in DOMAIN store :
        /\ Finds(k)
        /\ Decodable(store[k].value.v["response"])
        /\ Stale(k)
        /\ last.ret = None
\* the age of the entry found under k
Age(k) == now - store[k].value.v["timestamp"].v

BothBounds(kwargs) ==
    /\ IsDict(Control(kwargs))
    /\ {"s-maxage", "s-max-age"} \subseteq DOMAIN Control(kwargs).v
    /\ Control(kwargs).v["s-maxage"] # Control(kwargs).v["s-max-age"]

\* the entry under k is older than the bound the call gives under name
OlderThan(k, name) ==
    /\ IsDict(Control(last.kwargs))
    /\ name \in DOMAIN Control(last.kwargs).v
    /\ Age(k) > Control(last.kwargs).v[name].v

\* C24 as stated: a get of a call that supplies both s-maxage and s-max-age
\* with different values evaluates freshness against s-maxage
C24_Original ==
    \A k \in DOMAIN store :
        (/\ Finds(k)
         /\ BothBounds(last.kwargs)
         /\ Decodable(store[k].value.v["response"])) =>
            (last.ret = None <=> OlderThan(k, "s-maxage"))

\* C24: the freshness bound of get_cache and async_get_cache is the
\* s-max-age field of the cache-control structure when it is present,
\* otherwise the s-maxage field when that is present; when a call supplies
\* both with different values freshness is evaluated against the s-max-age
\* value
C24_MaxAgeSelection ==
    \A k \in DOMAIN store :
        (/\ Finds(k)
         /\ ControlIsMapping(last.kwargs)
         /\ Decodable(store[k].value.v["response"])) =>
            (last.ret = None <=>
                IF IsDict(Control(last.kwargs))
                      /\ "s-max-age" \in DOMAIN Control(last.kwargs).v
                THEN OlderThan(k, "s-max-age")
                ELSE OlderThan(k, "s-maxage"))

\* an entry of age 1 was returned to a get with s-maxage 0 and s-max-age 5
C24_Witness ==
    \E k \in DOMAIN store :
        /\ Finds(k)
        /\ BothBounds(last.kwargs)
        /\ Decodable(store[k].value.v["response"])
        /\ Age(k) = 1
        /\ OlderThan(k, "s-maxage")
        /\ ~OlderThan(k, "s-max-age")
        /\ last.ret # None

\* the call in last is a get that found under k an entry fresh for it
FindsFresh(k) ==
    /\ Finds(k)
    /\ ControlIsMapping(last.kwargs)
    /\ ~OlderThan(k, "s-max-age")
    /\ ~OlderThan(k, "s-maxage")

IsJson(response) ==
    response.t = "str" /\ \E d \in Documents : response.v = JsonText(d)

IsLiteral(response) ==
    response.t = "str" /\ \E d \in Documents : response.v = PyText(d)

\* what a get returns for a fresh entry with this response
Decoded(response) ==
    /\ ~last.raised
    /\ IsDict(response) => last.ret = response
    /\ (~IsDict(response) /\ IsJson(response)) =>
          \E d \in Documents : response.v = JsonText(d) /\ last.ret = d
    /\ (~IsDict(response) /\ ~IsJson(response) /\ IsLiteral(response)) =>
          \E d \in Documents : response.v = PyText(d) /\ last.ret = d
    /\ (~IsDict(response) /\ ~IsJson(response) /\ ~IsLiteral(response)) =>
          last.ret = None

DecodedAll ==
    \A k \in DOMAIN store : FindsFresh(k) => Decoded(store[k].value.v["response"])

C25_Step ==
    (last = Idle /\ last'.op \in {"get_cache", "async_get_cache"}) =>
        /\ DecodedAll'
        /\ ~last'.raised
        /\ store' = store
        /\ buffer' = buffer

\* C25: a get that finds a fresh entry returns a response that is a
\* structured record as it is, otherwise what the JSON parse of it gives,
\* otherwise what the literal parse gives; when both parses fail get_cache
\* and async_get_cache return None and raise nothing; no get changes what
\* the backend holds
C25_Decoding == [][C25_Step]_vars

\* a fresh entry whose response neither parse accepts was found, and the
\* get returned a miss without raising
C25_Witness ==
    \E k \in DOMAIN store :
        /\ FindsFresh(k)
        /\ store[k].value.v["response"] = S("hello")
        /\ last.ret = None
        /\ ~last.raised

\* a fresh entry holding the literal text of a record was found and the
\* record returned
C25_LiteralReached ==
    \E k \in DOMAIN store :
        /\ FindsFresh(k)
        /\ store[k].value.v["response"] = S(PyText(Record1))
        /\ last.ret = Record1

\* the ttl a write of the call in last should carry: the cache-control ttl
\* of the call, else the default ttl of the configuration, else none
ResolvedTtl ==
    IF IsDict(Control(last.kwargs)) /\ "ttl" \in DOMAIN Control(last.kwargs).v
    THEN Control(last.kwargs).v["ttl"]
    ELSE IF self.ttl # None THEN self.ttl
    ELSE Absent

IsAdd ==
    Called /\ last.op \in {"add_cache", "async_add_cache", "async_add_cache_pipeline"}

\* C12: every backend write issued by add_cache, async_add_cache and
\* async_add_cache_pipeline carries the per-call cache-control ttl when the
\* call supplies one, otherwise the default ttl of the configuration when it
\* is set, otherwise no ttl at all
C12_TtlResolution ==
    IsAdd => \A w \in DOMAIN last.writes : last.writes[w].ttl = ResolvedTtl

\* a batch write under a default ttl of 60 whose call asks for a ttl of 5
C12_Witness ==
    /\ IsAdd
    /\ last.op = "async_add_cache_pipeline"
    /\ self.ttl = N(60)
    /\ Control(last.kwargs) = UseCacheTtl
    /\ Len(last.writes) > 0
    /\ \A w \in DOMAIN last.writes : last.writes[w].ttl = N(5)

\* what get_cache gives where async_get_cache has just been called
SameRead(out) == last'.ret = out.val /\ last'.raised = out.exc

\* the writes of the two paths carry the same keys, entries and ttl
SamePairs(writes, blocking) ==
    /\ Len(writes) = Len(blocking)
    /\ Len(writes) <= 1
    /\ \A w \in DOMAIN writes :
          /\ writes[w].cache_list = blocking[w].cache_list
          /\ writes[w].ttl = blocking[w].ttl
          /\ blocking[w].op = "set_cache"

\* a get that follows gives what it gives after the blocking write
SameFollowing(blocking) ==
    get_cache(self, flag, backend, store', now, last'.kwargs) =
        get_cache(self, flag, backend,
                  IF backend.fails THEN store
                  ELSE StoreAfter(store, buffer, blocking, 1, self.redis_flush_size),
                  now, last'.kwargs)

Buffering == self.type = "redis" /\ self.redis_flush_size # None

\* C18 as stated: async_get_cache returns what get_cache returns, and
\* async_add_cache issues the single backend write add_cache issues, after
\* which a get observes the same value
C18_OriginalStep ==
    /\ (last = Idle /\ last'.op = "async_get_cache") =>
          SameRead(get_cache(self, flag, backend, store, now, last'.kwargs))
    /\ (last = Idle /\ last'.op = "async_add_cache") =>
          /\ SamePairs(last'.writes,
                       add_cache(self, flag, backend, now, last'.result,
                                 last'.kwargs).writes)
          /\ \A w \in DOMAIN last'.writes : last'.writes[w].op = "async_set_cache"
          /\ SameFollowing(add_cache(self, flag, backend, now, last'.result,
                                     last'.kwargs).writes)

C18_Original == [][C18_OriginalStep]_vars

C18_Step ==
    /\ (last = Idle /\ last'.op = "async_get_cache") =>
          SameRead(get_cache(self, flag, backend, store, now, last'.kwargs))
    /\ (last = Idle /\ last'.op = "async_add_cache") =>
          /\ SamePairs(last'.writes,
                       add_cache(self, flag, backend, now, last'.result,
                                 last'.kwargs).writes)
          /\ \A w \in DOMAIN last'.writes :
                last'.writes[w].op =
                    IF Buffering THEN "batch_cache_write" ELSE "async_set_cache"
          /\ ~Buffering =>
                SameFollowing(add_cache(self, flag, backend, now, last'.result,
                                        last'.kwargs).writes)

\* C18: async_get_cache returns what get_cache returns for the same
\* configuration, backend state and arguments; async_add_cache issues one
\* backend write with the key, entry and ttl of the write add_cache issues,
\* as a single write after which a get observes the same value on either
\* path, except for the redis kind with a flush size, where it hands the
\* write to the backend's buffered batch_cache_write
C18_PathsAgree == [][C18_Step]_vars

\* on the redis kind with a flush size an allowed async_add_cache left its
\* entry in the buffer, and the get that follows misses
C18_Witness ==
    /\ last.op = "async_add_cache"
    /\ Buffering
    /\ ~backend.fails
    /\ Len(last.writes) = 1
    /\ last.writes[1].op = "batch_cache_write"
    /\ Len(buffer) = 1
    /\ get_cache(self, flag, backend, store, now, last.kwargs).val = None

Optional == {"ping", "delete_cache_keys", "disconnect"}

\* C14: when the bound backend does not provide ping, delete_cache_keys or
\* disconnect, the operation of that name returns None, does nothing and
\* raises no error
C14_Unsupported ==
    (last.op \in Optional /\ ~Provides(self.type, last.op)) =>
        (~last.raised /\ last.ret = None)

\* C19: no step of get_cache, async_get_cache, add_cache, async_add_cache,
\* async_add_cache_pipeline, ping, delete_cache_keys or get_cache_key changes
\* the backend kind, the bound backend, the mode, the namespace or the default
\* ttl of the orchestrator
C19_ConfigImmutable ==
    [][/\ self'.type = self.type
       /\ backend' = backend
       /\ self'.mode = self.mode
       /\ self'.namespace = self.namespace
       /\ self'.ttl = self.ttl]_vars

\* a write under a default ttl of 60 resolved the ttl of 5 its call asked
\* for, and the default is still 60
C19_Witness ==
    /\ last.op = "add_cache"
    /\ last.writes # <<>>
    /\ last.writes[1].ttl = N(5)
    /\ self.ttl = N(60)

-----------------------------------------------------------------------------
(* Properties of the batch write, under SpecBatch *)

\* the call in last is a batch write the policy allowed, of a list of N
\* inputs with a response collection of N items, on a working backend
BatchCall ==
    /\ Called
    /\ last.op = "async_add_cache_pipeline"
    /\ ~backend.fails
    /\ should_use_cache(self.mode, last.kwargs)
    /\ Get(last.kwargs, "input", None).t = "list"
    /\ last.result.t = "EmbeddingResponse"
    /\ Len(At(last.kwargs, "input").v) = Len(last.result.v)

BatchSize == Len(At(last.kwargs, "input").v)

\* the call's arguments with input replaced by the i-th element alone
Substituted(i) == Put(last.kwargs, "input", At(last.kwargs, "input").v[i])

\* the (key, entry) pairs the call handed to the backend, bulk or one by one
WrittenPairs ==
    UNION {{[write |-> w, key |-> last.writes[w].cache_list[j][1],
             entry |-> last.writes[w].cache_list[j][2],
             idx |-> last.writes[w].given[j].idx] :
                j \in DOMAIN last.writes[w].cache_list} :
           w \in DOMAIN last.writes}

\* the pair written for the i-th element has the key derived from the
\* arguments with that element substituted, and the i-th item as response
PairOf(i) ==
    \E p \in WrittenPairs :
        /\ p.idx = i
        /\ Return(p.key) = get_cache_key(self.namespace, flag, Substituted(i))
        /\ p.entry.v["response"] = last.result.v[i]

\* get with the i-th element substituted returns the i-th item
ReadsBack(i) ==
    get_cache(self, flag, backend, store, now, Substituted(i)).val
        = last.result.v[i]

\* no other element of the batch derives the key of the i-th
KeyAlone(i) ==
    \A j \in (1..BatchSize) \ {i} :
        get_cache_key(self.namespace, flag, Substituted(j))
            # get_cache_key(self.namespace, flag, Substituted(i))

BatchIssued ==
    /\ Called
    /\ last.op = "async_add_cache_pipeline"
    /\ should_use_cache(self.mode, last.kwargs)
    /\ Get(last.kwargs, "input", None).t = "list"
    /\ last.result.t = "EmbeddingResponse"
    /\ Len(At(last.kwargs, "input").v) = Len(last.result.v)

\* the elements whose pairs the write w of the call carries
Carried(w) == {last.writes[w].given[j].idx : j \in DOMAIN last.writes[w].given}

\* C15: for a batch of N inputs, a backend with a bulk write is issued one
\* bulk write carrying all N pairs and no single write; a backend without
\* one is issued N single writes, one per pair, and no bulk write
C15_PathSelection ==
    BatchIssued =>
        IF backend.pipeline
        THEN /\ Len(last.writes) = 1
             /\ last.writes[1].op = "async_set_cache_pipeline"
             /\ Len(last.writes[1].cache_list) = BatchSize
             /\ Carried(1) = 1..BatchSize
        ELSE /\ Len(last.writes) = BatchSize
             /\ \A w \in DOMAIN last.writes :
                   /\ last.writes[w].op = "async_set_cache"
                   /\ Len(last.writes[w].cache_list) = 1
             /\ UNION {Carried(w) : w \in DOMAIN last.writes} = 1..BatchSize

\* a batch of two went to a backend with a bulk write as one write of two
\* pairs
C15_Witness ==
    /\ BatchIssued
    /\ backend.pipeline
    /\ BatchSize = 2
    /\ Len(last.writes) = 1
    /\ Len(last.writes[1].cache_list) = 2

\* a batch of two went to a backend without a bulk write as two writes
C15_FanOutReached ==
    /\ BatchIssued
    /\ ~backend.pipeline
    /\ BatchSize = 2
    /\ Len(last.writes) = 2

\* the call is a batch write the policy allows, of a list of inputs, whose
\* response has no item for one of them
BuildFails(call) ==
    /\ call.op = "async_add_cache_pipeline"
    /\ should_use_cache(self.mode, call.kwargs)
    /\ Get(call.kwargs, "input", None).t = "list"
    /\ \/ call.result.t # "EmbeddingResponse"
       \/ Len(call.result.v) < Len(At(call.kwargs, "input").v)

\* the number of pairs the writes of the call carry
PairCount(call) ==
    Cardinality(UNION {{<<w, j>> : j \in DOMAIN call.writes[w].cache_list} :
                          w \in DOMAIN call.writes})

C27_Step ==
    /\ (last = Idle /\ BuildFails(last')) =>
          /\ last'.writes = <<>>
          /\ ~last'.raised
          /\ store' = store
          /\ buffer' = buffer
    /\ (last = Idle /\ last'.op = "async_add_cache_pipeline"
            /\ last'.writes # <<>>) =>
          PairCount(last') = Len(At(last'.kwargs, "input").v)

\* C27: async_add_cache_pipeline issues backend writes only with the pair
\* of every input element built; when building a pair fails, as when the
\* response has fewer items than the input list, it issues no write, the
\* backend is left as it was and nothing is raised to the caller
C27_AllOrNothing == [][C27_Step]_vars

\* a batch of two with a response of one item was handed in over a
\* backend that held an entry, and nothing was written
C27_Witness ==
    /\ BuildFails(last)
    /\ Len(At(last.kwargs, "input").v) = 2
    /\ last.result.t = "EmbeddingResponse"
    /\ Len(last.result.v) = 1
    /\ last.writes = <<>>
    /\ ~last.raised
    /\ store # EmptyMap

-----------------------------------------------------------------------------
(* Properties of the non-blocking writes in progress, under SpecLoop *)

\* C16: on the fan-out path async_add_cache_pipeline returns only when none
\* of the single writes it issued is still in flight, also when one fails
C16_WaitsForAll ==
    \A c \in DOMAIN running :
        (/\ running[c].op = "async_add_cache_pipeline"
         /\ ~backend.pipeline
         /\ running[c].returned) =>
            \A i \in DOMAIN running[c].stamps : running[c].stamps[i] > 0

\* the entry the backend holds under key: the latest still in its buffer,
\* otherwise the one in its store
Latest(key) ==
    {i \in DOMAIN buffer : buffer[i].pair[1].v = key /\
        \A j \in DOMAIN buffer : buffer[j].pair[1].v = key => j <= i}

Held(key) ==
    IF Latest(key) # {} THEN buffer[CHOOSE i \in Latest(key) : TRUE].pair[2]
    ELSE IF key \in DOMAIN store THEN store[key].value
    ELSE Absent

\* the call has returned after its one write of an entry was served
WroteOne(call) ==
    /\ call.op = "async_add_cache"
    /\ call.returned
    /\ ~backend.fails
    /\ Len(call.writes) = 1
    /\ call.stamps[1] > 0

KeyOf(call) == call.writes[1].cache_list[1][1].v

\* two callers have written the same key and both have returned
Raced(c, d) ==
    /\ c # d
    /\ WroteOne(running[c])
    /\ WroteOne(running[d])
    /\ KeyOf(running[c]) = KeyOf(running[d])

\* C17: when two concurrent callers of async_add_cache have written the
\* same key and both have returned, the backend holds the timestamp and
\* the response of the call whose backend write was served last
C17_LastCompletedWins ==
    \A c, d \in DOMAIN running :
        (Raced(c, d) /\ running[c].stamps[1] > running[d].stamps[1]) =>
            Held(KeyOf(running[c])) =
                D([timestamp |-> N(running[c].at),
                   response |-> running[c].result])

\* the caller that began first, at time 0, had its write served last and
\* its entry is the one held, not that of the caller that began at time 1
C17_Witness ==
    /\ DOMAIN running = {1, 2}
    /\ Raced(1, 2)
    /\ running[1].stamps[1] > running[2].stamps[1]
    /\ running[1].at = 0
    /\ running[2].at = 1
    /\ running[1].result # running[2].result
    /\ Held(KeyOf(running[1])).v["response"] = running[1].result

-----------------------------------------------------------------------------
(* Properties of construction and of the toggle, under SpecToggle *)

\* C13: constructing the cache with a backend kind that is not one of the
\* enumerated kinds raises ValueError, and no Cache object without a bound
\* backend is ever produced
C13_UnknownKindRejected ==
    /\ (last.op = "Cache" /\ last.args.type \notin EnumeratedKinds) =>
          (last.raised /\ last.error = "ValueError")
    /\ (last.op = "Cache" /\ ~last.raised) => last.ret.cache # Absent
    /\ cache # None => cache.cache # Absent

\* C20: after disable_cache returns, whatever the three callback lists held
\* before, none of them contains "cache" and litellm.cache is None
C20_Disabled ==
    last.op = "disable_cache" =>
        /\ ~Registered(input_callback)
        /\ ~Registered(success_callback)
        /\ ~Registered(_async_success_callback)
        /\ cache = None

\* the Cache object c has the configuration of args
Configured(c, args) ==
    /\ c # None
    /\ c.type = args.type
    /\ c.namespace = args.namespace
    /\ c.mode = (IF args.mode = "" THEN "default_on" ELSE args.mode)
    /\ c.redis_flush_size = args.redis_flush_size

AllRegistered ==
    /\ Registered(input_callback)
    /\ Registered(success_callback)
    /\ Registered(_async_success_callback)

Returns(op) == last.op = op /\ ~last.raised

\* C21 as stated: when enable_cache or update_cache has returned,
\* litellm.cache has the configuration of the call and the three lists
\* contain "cache"
C21_Original ==
    (Returns("enable_cache") \/ Returns("update_cache")) =>
        (Configured(cache, last.args) /\ AllRegistered)

C21_Step ==
    /\ (last'.op = "enable_cache" /\ ~last'.raised) =>
          /\ AllRegistered'
          /\ IF cache = None THEN Configured(cache', last'.args)
             ELSE cache' = cache
    /\ (last'.op = "update_cache" /\ ~last'.raised) =>
          /\ AllRegistered'
          /\ Configured(cache', last'.args)

\* C21: after enable_cache returns, "cache" is in all three callback lists
\* and litellm.cache is a cache with the specified configuration when no
\* cache was bound before, the cache that was already bound otherwise;
\* after update_cache returns, litellm.cache is a newly built cache with
\* the specified configuration, from any prior state
C21_Enabled == [][C21_Step]_vars

\* enable_cache has returned over a cache bound with another configuration,
\* which is still the one bound
C21_Witness ==
    /\ Returns("enable_cache")
    /\ cache # None
    /\ cache.type = "redis"
    /\ last.args.type = "local"
    /\ AllRegistered

Occurrences(callbacks) ==
    Cardinality({i \in DOMAIN callbacks : callbacks[i] = "cache"})

\* C26: from empty callback lists and no cache, after any calls of Cache,
\* enable_cache, update_cache and disable_cache each of the three lists
\* contains "cache" at most once, the three agree on containing it, and
\* whenever litellm.cache is bound all three contain it
C26_ListsAgree ==
    /\ Occurrences(input_callback) <= 1
    /\ Occurrences(success_callback) <= 1
    /\ Occurrences(_async_success_callback) <= 1
    /\ Registered(input_callback) = Registered(success_callback)
    /\ Registered(success_callback) = Registered(_async_success_callback)
    /\ cache # None => AllRegistered

\* enable_cache was called over a cache bound by an earlier call, and each
\* list holds "cache" once
C26_Witness ==
    /\ last.op = "enable_cache"
    /\ cache # None
    /\ cache.type # last.args.type
    /\ input_callback = <<"cache">>
    /\ success_callback = <<"cache">>
    /\ _async_success_callback = <<"cache">>

====
